---------------------------- MODULE Spec2Model ----------------------------
(***************************************************************************)
(* nanoforce-3d: the image -> point cloud -> PLY pipeline of               *)
(* components/ModelViewer.tsx, driven by the state handlers of App.tsx.    *)
(*                                                                         *)
(* Numbers.  JavaScript numbers are modelled as exact values:              *)
(*   - samplingStep, particleSize, brightness are held in tenths (the UI   *)
(*     sliders move in steps of 0.5 / 0.1), zExtrusion and                 *)
(*     transparencyThreshold as integers;                                  *)
(*   - a colour channel is an exact fraction <<n, d>> in lowest terms;     *)
(*   - a position is an integer number of 1/153000 scene units, the unit   *)
(*     in which posX, posY ((x - w/2) * size * 0.02) and posZ              *)
(*     ((r+g+b)/(3*255) * zExtrusion * 0.02) are all whole numbers.        *)
(***************************************************************************)
EXTENDS Integers, Sequences, FiniteSets, TLC

\* null, for the values that are objects when present
NULL == [null |-> TRUE]
\* null, for the values that are strings when present
NULL_STR == "null"

Abs(n) == IF n < 0 THEN -n ELSE n
Max(a, b) == IF a >= b THEN a ELSE b
Min(a, b) == IF a <= b THEN a ELSE b

(***************************************************************************)
(* Exact fractions.                                                        *)
(***************************************************************************)
RECURSIVE GCD(_, _)
GCD(a, b) == IF b = 0 THEN a ELSE GCD(b, a % b)

Rat(n, d) == LET g == GCD(Abs(n), d) IN <<n \div g, d \div g>>

RMul(a, b) ==
    LET g1 == GCD(Abs(a[1]), b[2])
        g2 == GCD(Abs(b[1]), a[2])
    IN  <<(a[1] \div g1) * (b[1] \div g2), (a[2] \div g2) * (b[2] \div g1)>>

RAdd(a, b) == Rat(a[1] * b[2] + b[1] * a[2], a[2] * b[2])

\* NaN as a number held in tenths, as an integer or as a position: a value
\* apart from every number of the model, which each operation with a NaN
\* operand hands on.  NaN as a colour channel is the fraction 0/0.
NaN == 0 - 1000000000
RNaN == <<0, 0>>

\* a sum handed on without the cap at 1
RMin1NoCap(v) == v

\* Math.min(1, v)
RMin1(v) == IF v[1] < v[2] THEN v ELSE <<1, 1>>

\* Math.floor(v * 255)
Floor255(v) == (v[1] * 255) \div v[2]

(***************************************************************************)
(* applyColorMode (ModelViewer.tsx 22-86).                                 *)
(***************************************************************************)
ColorModes ==
    {"ORIGINAL", "COOL_BLACK", "CYBERPUNK", "MATRIX", "GOLDEN", "OCEAN",
     "INFERNO", "VAPORWAVE", "ARCTIC", "MONO", "SEPIA", "BLUEPRINT"}

\* new THREE.Color(tintHex): the channels of a "#rrggbb" string, each in 0..1.
\* Only hex strings whose channels are 00 or ff are used, for which the
\* channel is 0 or 1 in every colour space three.js may convert to.
ThreeColor(tintHex) ==
    CASE tintHex = "#ffffff" -> <<Rat(1, 1), Rat(1, 1), Rat(1, 1)>>
      [] tintHex = "#ff0000" -> <<Rat(1, 1), Rat(0, 1), Rat(0, 1)>>
      [] tintHex = "#00ffff" -> <<Rat(0, 1), Rat(1, 1), Rat(1, 1)>>
      [] tintHex = "#000000" -> <<Rat(0, 1), Rat(0, 1), Rat(0, 1)>>

\* The switch on mode: <<finalR, finalG, finalB>> before tint and brightness.
ModeColor(r, g, b, mode) ==
    LET normR == Rat(r, 255)
        normG == Rat(g, 255)
        normB == Rat(b, 255)
        gray  == Rat(299 * r + 587 * g + 114 * b, 255000)
        k(n)  == Rat(n, 10)
    IN  CASE mode = "COOL_BLACK" ->
               <<RMul(gray, k(2)), RMul(gray, k(2)), RAdd(RMul(gray, k(3)), k(1))>>
          [] mode = "CYBERPUNK" ->
               <<RMul(normR, k(12)), RMul(normG, k(8)), RMul(normB, k(15))>>
          [] mode = "MATRIX" ->
               <<Rat(0, 1), RMul(gray, k(15)), Rat(0, 1)>>
          [] mode = "GOLDEN" ->
               <<RMul(gray, k(12)), RMul(gray, k(9)), RMul(gray, k(2))>>
          [] mode = "OCEAN" ->
               <<Rat(0, 1), RMul(gray, k(8)), RMul(gray, k(12))>>
          [] mode = "INFERNO" ->
               <<RMul(gray, k(15)), RMul(gray, k(5)), Rat(0, 1)>>
          [] mode = "VAPORWAVE" ->
               <<RMin1(RAdd(normR, k(2))), RMul(normG, k(8)), RMin1(RAdd(normB, k(3)))>>
          [] mode = "ARCTIC" ->
               <<RMul(gray, k(8)), RMul(gray, k(9)), Rat(1, 1)>>
          [] mode = "MONO" ->
               <<gray, gray, gray>>
          [] mode = "SEPIA" ->
               <<RMin1(Rat(393 * r + 769 * g + 189 * b, 255000)),
                 RMin1(Rat(349 * r + 686 * g + 168 * b, 255000)),
                 RMin1(Rat(272 * r + 534 * g + 131 * b, 255000))>>
          [] mode = "BLUEPRINT" ->
               <<Rat(0, 1), RMul(gray, k(5)), Rat(1, 1)>>
          [] OTHER ->
               <<normR, normG, normB>>

\* the tinted colour returned without the brightness factor
applyColorModeNoBrightness(r, g, b, mode, brightness, tintHex) ==
    LET f == ModeColor(r, g, b, mode)
    IN  IF tintHex # "#ffffff"
        THEN LET tintColor == ThreeColor(tintHex)
             IN  <<RMul(f[1], tintColor[1]), RMul(f[2], tintColor[2]),
                   RMul(f[3], tintColor[3])>>
        ELSE f

\* brightness is in tenths.
applyColorMode(r, g, b, mode, brightness, tintHex) ==
    LET f == ModeColor(r, g, b, mode)
        t == IF tintHex # "#ffffff"
             THEN LET tintColor == ThreeColor(tintHex)
                  IN  <<RMul(f[1], tintColor[1]), RMul(f[2], tintColor[2]),
                        RMul(f[3], tintColor[3])>>
             ELSE f
        br == Rat(brightness, 10)
    IN  IF brightness = NaN
        THEN <<RNaN, RNaN, RNaN>>
        ELSE <<RMul(t[1], br), RMul(t[2], br), RMul(t[3], br)>>


(***************************************************************************)
(* The sampling pass of img.onload (ModelViewer.tsx 214-274).              *)
(* An image is [width, height, data]; data is the row-major sequence of    *)
(* its RGBA pixels, pixel (x, y) at index y*width + x + 1.                 *)
(***************************************************************************)
MAX_WIDTH == 512

\* w, h of the canvas: images wider than MAX_WIDTH are scaled down.
\* Math.round(w * aspect) with aspect = h / w.
ResizeDims(width, height) ==
    IF width > MAX_WIDTH
    THEN <<MAX_WIDTH, (2 * MAX_WIDTH * height + width) \div (2 * width)>>
    ELSE <<width, height>>

\* ctx.drawImage(img, 0, 0, w, h); ctx.getImageData(0, 0, w, h).data
\* An unscaled image is copied; a scaled one is resampled by the browser
\* (taken here as nearest-neighbour).
CanvasData(img, w, h) ==
    IF w = img.width /\ h = img.height
    THEN img.data
    ELSE [i \in 1..(w * h) |->
            LET x == (i - 1) % w
                y == (i - 1) \div w
            IN  img.data[((y * img.height) \div h) * img.width
                         + ((x * img.width) \div w) + 1]]

\* Math.max(1, Math.floor(appState.samplingStep)); samplingStep in tenths.
EffStep(samplingStep) == Max(1, samplingStep \div 10)

\* a strict comparison in the transparency filter
AlphaPassStrict(a, threshold) == a > threshold

\* a filter that keeps every pixel with some alpha, whatever the threshold
AlphaPassNonZero(a, threshold) == a > 0

\* the transparency filter: a >= appState.transparencyThreshold
AlphaPass(a, threshold) == a >= threshold

\* positions measured from the raster's corner, without offsetX, offsetY
PointPosFromCorner(x, y, w, h, px, cfg) ==
    << 2 * x * cfg.particleSize * 153,
       (0 - 2 * y) * cfg.particleSize * 153,
       (px.r + px.g + px.b) * cfg.zExtrusion * 4 >>

\* posX, posY, posZ, in 1/153000 units (particleSize in tenths).
PointPos(x, y, w, h, px, cfg) ==
    << IF cfg.particleSize = NaN THEN NaN
       ELSE (2 * x - w) * cfg.particleSize * 153,
       IF cfg.particleSize = NaN THEN NaN
       ELSE (0 - (2 * y - h)) * cfg.particleSize * 153,
       IF cfg.zExtrusion = NaN THEN NaN
       ELSE (px.r + px.g + px.b) * cfg.zExtrusion * 4 >>

\* points added at the front of the arrays
PushPointFront(acc, p, c) == [pos |-> p \o acc.pos, col |-> c \o acc.col]

\* validPoints.push(posX, posY, posZ); validColors.push(cr, cg, cb)
PushPoint(acc, p, c) == [pos |-> acc.pos \o p, col |-> acc.col \o c]

\* the loop body for pixel (x, y)
Visit(data, w, h, cfg, x, y, acc) ==
    LET px == data[y * w + x + 1]
    IN  IF AlphaPass(px.a, cfg.transparencyThreshold)
        THEN PushPoint(acc,
                       PointPos(x, y, w, h, px, cfg),
                       applyColorMode(px.r, px.g, px.b, cfg.colorMode,
                                      cfg.brightness, cfg.tintColor))
        ELSE acc

\* a loop that steps by one pixel whatever the stride
AdvanceByOne(i, step) == i + 1

\* x += step, y += step
Advance(i, step) == i + step

\* for (let x = 0; x < w; x += step)
RECURSIVE LoopX(_, _, _, _, _, _, _, _)
LoopX(data, w, h, cfg, step, x, y, acc) ==
    IF x < w
    THEN LoopX(data, w, h, cfg, step, Advance(x, step), y,
               Visit(data, w, h, cfg, x, y, acc))
    ELSE acc

\* for (let y = 0; y < h; y += step)
RECURSIVE LoopY(_, _, _, _, _, _, _)
LoopY(data, w, h, cfg, step, y, acc) ==
    IF y < h
    THEN LoopY(data, w, h, cfg, step, Advance(y, step),
               LoopX(data, w, h, cfg, step, 0, y, acc))
    ELSE acc

\* The value img.onload hands to setParticlesData for image img under the
\* appState cfg its effect closed over.
SamplePass(img, cfg) ==
    LET d    == ResizeDims(img.width, img.height)
        w    == d[1]
        h    == d[2]
        data == CanvasData(img, w, h)
    IN  LoopY(data, w, h, cfg, EffStep(cfg.samplingStep), 0,
              [pos |-> <<>>, col |-> <<>>])

\* canvas.width = w; canvas.height = h
CanvasSize(img) ==
    LET d == ResizeDims(img.width, img.height)
    IN  [width |-> d[1], height |-> d[2]]

\* getImageData throws (IndexSizeError) on an empty rectangle: onload then
\* ends before setParticlesData.
OnloadThrows(img) ==
    LET d == ResizeDims(img.width, img.height) IN d[1] = 0 \/ d[2] = 0

(***************************************************************************)
(* exportPLY (ModelViewer.tsx 99-134).                                     *)
(***************************************************************************)
\* digits cut off after the third decimal in place of rounding
ToFixed3Truncating(v) ==
    [neg |-> v < 0, milli |-> Abs(v) \div 153]

\* v.toFixed(3) of a position v given in 1/153000 units: the sign and the
\* digits, as thousandths.  153 is odd, so no value lies on a rounding tie.
ToFixed3(v) ==
    [neg |-> v < 0, milli |-> (2 * Abs(v) + 153) \div (2 * 153)]

\* a byte without the upper clamp
ColorByteNoCap(c) == Max(0, Floor255(c))

\* Math.min(255, Math.max(0, Math.floor(c * 255)))
ColorByte(c) == Min(255, Max(0, Floor255(c)))

\* the array length in place of the point count
VertexCountOfArray(pos) == Len(pos)

\* ${particlesData.pos.length / 3}
VertexCount(pos) == Len(pos) \div 3

\* a guard that lets an empty cloud through
ExportSkipsNullOnly(data) == data = NULL

\* if (!particlesData || particlesData.pos.length === 0) return;
ExportSkips(data) == data = NULL \/ Len(data.pos) = 0

\* one line of the loop, for i = 3*(k-1)
VertexLine(data, k) ==
    LET i == 3 * (k - 1) + 1
    IN  [x |-> ToFixed3(data.pos[i]),
         y |-> ToFixed3(data.pos[i + 1]),
         z |-> ToFixed3(data.pos[i + 2]),
         r |-> ColorByte(data.col[i]),
         g |-> ColorByte(data.col[i + 1]),
         b |-> ColorByte(data.col[i + 2])]

\* for (let i = 0; i < particlesData.pos.length; i += 3)
VertexLines(data) ==
    [k \in 1..((Len(data.pos) + 2) \div 3) |-> VertexLine(data, k)]

\* plyContent: the header, then the vertex lines after end_header.
PlyContent(data) ==
    [magic      |-> "ply",
     format     |-> "ascii 1.0",
     vertex     |-> VertexCount(data.pos),
     properties |-> <<"float x", "float y", "float z",
                      "uchar red", "uchar green", "uchar blue">>,
     lines      |-> VertexLines(data)]


(***************************************************************************)
(* The mesh-update effect (ModelViewer.tsx 287-326).                       *)
(***************************************************************************)
\* The number of instances the mesh is allocated with (line 345).  The
\* source allocates 500000, which a canvas of 512 x 977 pixels or more
\* exceeds; the model allocates 10, which its rasters of 12 pixels or more
\* exceed, so that clouds below, at and above the capacity all occur.
MeshCapacity == 10

\* count, and the instance slots setMatrixAt / setColorAt write: a write past
\* the allocated capacity does not land (the typed arrays instanceMatrix and
\* instanceColor drop it), so the mesh has no data for an instance beyond
\* it.  scale is particleSize * 0.015 in 1/10000 units.
MeshUpdate(data, app) ==
    LET count == Len(data.pos) \div 3
    IN  [count |-> count,
         inst  |-> [i \in 1..Min(count, MeshCapacity) |->
                      [pos     |-> <<data.pos[3 * i - 2], data.pos[3 * i - 1],
                                     data.pos[3 * i]>>,
                       scale   |-> IF app.particleSize = NaN THEN NaN
                                   ELSE app.particleSize * 15,
                       rotated |-> app.particleShape = "diamond",
                       col     |-> <<data.col[3 * i - 2], data.col[3 * i - 1],
                                     data.col[3 * i]>>]]]

\* if (!meshRef.current || !particlesData) return;
MeshEffect(data, app, old) ==
    IF data = NULL THEN old ELSE MeshUpdate(data, app)

(***************************************************************************)
(* State.                                                                  *)
(***************************************************************************)
VARIABLES
    appState,       \* App: useState<AppState>
    generation,     \* App: useState<GenerationResult>
    images,         \* what each image URL decodes to: [width, height, data]
    reads,          \* FileReader reads in flight, per file
    pending,        \* image loads in flight: [seq, url, cfg], cfg the appState
                    \* the effect run closed over
    issued,         \* number of runs of the process-image effect so far
    particlesData,  \* PixelCloud: useState<{pos, col} | null>
    dataReq,        \* the load whose onload wrote particlesData, or NULL
    mesh,           \* the instanced mesh as last updated, or NULL
    canvas,         \* width and height of the canvas the last img.onload
                    \* drew the image on, or NULL
    actions,        \* number of user actions (control changes, uploads,
                    \* clicks) so far
    isRecording,    \* App: useState(false)
    recPending,     \* startRecording calls waiting on getDisplayMedia
    recorders,      \* the MediaRecorders created so far, each "recording" or
                    \* "inactive"; the last one is window.mediaRecorder
    lastSource,     \* the image URL of the upload or text generation
                    \* started last, or NULL_STR
    lastExport      \* the last exportPLY call: the particlesData it read, the
                    \* load that had written it, the file content it built and
                    \* the download it started (NULL: none); NULL before the
                    \* first call

recVars == <<isRecording, recPending, recorders>>

vars == <<appState, generation, images, reads, pending, issued,
          particlesData, dataReq, mesh, canvas, actions, lastExport, recVars,
          lastSource>>

\* bounds of the model
MaxActions == 3
MaxW == 2
MaxH == 2

Files == {"fileA", "fileB"}

\* reader.readAsDataURL(file): e.target.result
DataUrl(file) == IF file = "fileA" THEN "data:A" ELSE "data:B"

Urls == {DataUrl(f) : f \in Files}

PxWhite == [r |-> 255, g |-> 255, b |-> 255, a |-> 255]
PxFaint == [r |-> 51, g |-> 102, b |-> 204, a |-> 19]
PxRed   == [r |-> 255, g |-> 0, b |-> 0, a |-> 255]
PxClear == [r |-> 0, g |-> 0, b |-> 0, a |-> 0]

ImageA == [width |-> 2, height |-> 2,
           data |-> <<PxWhite, PxFaint, PxRed, PxClear>>]
ImageB == [width |-> 3, height |-> 1,
           data |-> <<PxRed, PxWhite, PxFaint>>]

\* canvas.toDataURL('image/png') of the text canvas (App.tsx 110), and what
\* it decodes to: the shade rgba(0, 0, 0, 0.3) with the prompt in white on
\* it.  The source draws 800 x 750 pixels; two pixels stand for them.
TextUrl == "data:text"
PxShade == [r |-> 0, g |-> 0, b |-> 0, a |-> 76]
ImageText == [width |-> 2, height |-> 1, data |-> <<PxShade, PxWhite>>]

\* a single opaque white pixel
ImageDot == [width |-> 1, height |-> 1, data |-> <<PxWhite>>]

\* App.tsx 11-34; focusDistance, aperture and gridBrightness in tenths
DefaultAppState ==
    [mode                  |-> "upload",
     prompt                |-> "",
     viewportMode          |-> "dark",
     autoRotate            |-> TRUE,
     focusDistance         |-> 0,
     aperture              |-> 30,
     gridBrightness        |-> 10,
     samplingStep          |-> 30,
     particleSize          |-> 15,
     particleShape         |-> "square",
     zExtrusion            |-> 400,
     transparencyThreshold |-> 20,
     colorMode             |-> "ORIGINAL",
     brightness            |-> 10,
     tintColor             |-> "#ffffff"]

\* App.tsx 37-42
DefaultGeneration ==
    [imageUrl |-> NULL_STR, loading |-> FALSE, error |-> NULL_STR, prompt |-> ""]

\* the values the controls are moved to
FieldValues ==
    [samplingStep          |-> {10, 30},
     particleSize          |-> {15, 30},
     particleShape         |-> {"square", "diamond"},
     zExtrusion            |-> {0, 400},
     transparencyThreshold |-> {0, 20},
     colorMode             |-> {"ORIGINAL", "MATRIX"},
     brightness            |-> {10, 30},
     tintColor             |-> {"#ffffff", "#ff0000"}]

Fields == DOMAIN FieldValues

\* the values the controls that do not feed the sampler are moved to, and
\* those of one control that does
AppFieldValues ==
    [mode           |-> {"upload", "text"},
     prompt         |-> {"", "hi"},
     viewportMode   |-> {"dark", "transparent"},
     autoRotate     |-> {TRUE, FALSE},
     focusDistance  |-> {0, 25},
     aperture       |-> {30, 5},
     gridBrightness |-> {10, 5},
     particleShape  |-> {"square", "diamond"},
     brightness     |-> {10, 30}]

AppFields == DOMAIN AppFieldValues

Init ==
    /\ appState = DefaultAppState
    /\ generation = DefaultGeneration
    /\ images = [u \in Urls \cup {TextUrl} |->
                   IF u = "data:A" THEN ImageA
                   ELSE IF u = "data:B" THEN ImageB ELSE ImageText]
    /\ reads = [f \in Files |-> 0]
    /\ pending = {}
    /\ issued = 0
    /\ particlesData = NULL
    /\ dataReq = NULL
    /\ mesh = NULL
    /\ canvas = NULL
    /\ actions = 0
    /\ lastExport = NULL
    /\ lastSource = NULL_STR
    /\ isRecording = FALSE
    /\ recPending = 0
    /\ recorders = <<>>

(***************************************************************************)
(* A render of App and PixelCloud after a state update, with the effects   *)
(* it runs.                                                                *)
(***************************************************************************)
\* an effect that depends on the whole appState object
ProcessDepsWholeState(url, app) == <<url, app>>

\* the dependency array of the process-image effect (ModelViewer.tsx 275-284)
ProcessDeps(url, app) ==
    <<url, app.samplingStep, app.zExtrusion, app.transparencyThreshold,
      app.colorMode, app.particleSize, app.brightness, app.tintColor>>

\* PixelCloud is mounted only with an image URL (ModelViewer.tsx 398), and
\* its effect returns at once without one (208).
EffectRuns(oldUrl, oldApp, newUrl, newApp) ==
    /\ newUrl # NULL_STR
    /\ ProcessDeps(oldUrl, oldApp) # ProcessDeps(newUrl, newApp)

\* new Image(); img.src = imageUrl; img.onload = ...
Render(newGen, newApp) ==
    /\ appState' = newApp
    /\ generation' = newGen
    /\ IF EffectRuns(generation.imageUrl, appState, newGen.imageUrl, newApp)
       THEN /\ issued' = issued + 1
            /\ pending' = pending \cup
                 {[seq |-> issued + 1, url |-> newGen.imageUrl, cfg |-> newApp]}
       ELSE UNCHANGED <<issued, pending>>
    /\ mesh' = MeshEffect(particlesData, newApp, mesh)

\* handleStateChange (App.tsx 47-49)
handleStateChange(field, value) ==
    LET newApp == [appState EXCEPT ![field] = value]
    IN  /\ actions < MaxActions
        /\ actions' = actions + 1
        /\ Render(generation, newApp)
        /\ UNCHANGED <<images, reads, particlesData, dataReq, canvas,
                       lastExport, lastSource, recVars>>

\* handleUpload (App.tsx 51-63): reader.readAsDataURL(file).  Controls shows
\* the upload area in mode 'upload' only (Controls.tsx 79).
handleUpload(file) ==
    /\ appState.mode = "upload"
    /\ actions < MaxActions
    /\ actions' = actions + 1
    /\ reads' = [reads EXCEPT ![file] = @ + 1]
    /\ lastSource' = DataUrl(file)
    /\ UNCHANGED <<appState, generation, images, pending, issued,
                   particlesData, dataReq, mesh, canvas, lastExport, recVars>>

\* reader.onload (App.tsx 53-61)
ReaderOnload(file) ==
    /\ reads[file] > 0
    /\ reads' = [reads EXCEPT ![file] = @ - 1]
    /\ Render([imageUrl |-> DataUrl(file), loading |-> FALSE,
               error |-> NULL_STR, prompt |-> file], appState)
    /\ UNCHANGED <<images, particlesData, dataReq, canvas, actions,
                   lastExport, lastSource, recVars>>

\* a store updated in place: the new positions beside the old colours
setParticlesDataTorn(prev, result) ==
    IF prev = NULL THEN result ELSE [pos |-> result.pos, col |-> prev.col]

\* setParticlesData({ pos: validPoints, col: validColors }): the new state
\* value, given the previous one
setParticlesData(prev, result) == result

\* img.onload (ModelViewer.tsx 214-274) of the load q, then the render it causes
ImgOnload(q) ==
    /\ q \in pending
    /\ pending' = pending \ {q}
    /\ canvas' = CanvasSize(images[q.url])
    /\ IF OnloadThrows(images[q.url])
       THEN UNCHANGED <<particlesData, dataReq, mesh>>
       ELSE /\ particlesData' =
                 setParticlesData(particlesData, SamplePass(images[q.url], q.cfg))
            /\ dataReq' = q
            /\ mesh' = MeshEffect(particlesData', appState, mesh)
    /\ UNCHANGED <<appState, generation, images, reads, issued, actions,
                   lastExport, lastSource, recVars>>

\* an export that empties the store it has exported
exportPLYClearing ==
    /\ lastExport' =
         [data     |-> particlesData,
          req      |-> dataReq,
          file     |-> IF ExportSkips(particlesData) THEN NULL
                       ELSE PlyContent(particlesData),
          download |-> IF ExportSkips(particlesData) THEN NULL
                       ELSE [name    |-> "nanopixel_model.ply",
                             content |-> PlyContent(particlesData)]]
    /\ particlesData' = IF ExportSkips(particlesData) THEN particlesData
                        ELSE [pos |-> <<>>, col |-> <<>>]
    /\ UNCHANGED <<appState, generation, images, reads, pending, issued,
                   dataReq, mesh, canvas, actions, recVars, lastSource>>

\* exportPLY (ModelViewer.tsx 99-134): plyContent (file), and the download
\* the call itself starts with it through link.click() (127-133)
exportPLY ==
    /\ lastExport' =
         [data     |-> particlesData,
          req      |-> dataReq,
          file     |-> IF ExportSkips(particlesData) THEN NULL
                       ELSE PlyContent(particlesData),
          download |-> IF ExportSkips(particlesData) THEN NULL
                       ELSE [name    |-> "nanopixel_model.ply",
                             content |-> PlyContent(particlesData)]]
    /\ UNCHANGED <<appState, generation, images, reads, pending, issued,
                   particlesData, dataReq, mesh, canvas, actions, recVars,
                   lastSource>>

Next ==
    \/ \E field \in Fields : \E value \in FieldValues[field] :
          handleStateChange(field, value)
    \/ \E file \in Files : handleUpload(file)
    \/ \E file \in Files : ReaderOnload(file)
    \/ \E q \in pending : ImgOnload(q)
    \/ exportPLY

Spec == Init /\ [][Next]_vars


(***************************************************************************)
(* handleGenerate (App.tsx 65-136).  The function has no await: its two    *)
(* setGeneration calls run within one call, the second on the result of    *)
(* the first.                                                              *)
(***************************************************************************)
\* a catch block that records the error and leaves loading as it is
GenerateOutcomeStuck(g, app, ctxOk) ==
    IF app.mode = "text"
    THEN IF ctxOk
         THEN [imageUrl |-> TextUrl, loading |-> FALSE, error |-> NULL_STR,
               prompt |-> app.prompt]
         ELSE [g EXCEPT !.error = "Canvas unsupported"]
    ELSE [g EXCEPT !.loading = FALSE,
                   !.error = "Texture generation is currently disabled."]

\* the try / catch (70-135) applied to the generation state g: the text
\* image (ctxOk), the catch of 'Canvas unsupported' thrown when getContext
\* gives null, or the branch of the other modes
GenerateOutcome(g, app, ctxOk) ==
    IF app.mode = "text"
    THEN IF ctxOk
         THEN [imageUrl |-> TextUrl, loading |-> FALSE, error |-> NULL_STR,
               prompt |-> app.prompt]
         ELSE [g EXCEPT !.loading = FALSE, !.error = "Canvas unsupported"]
    ELSE [g EXCEPT !.loading = FALSE,
                   !.error = "Texture generation is currently disabled."]

\* the click on the generate button, which Controls renders in mode 'text'
\* and disables while generation.loading (Controls.tsx 95-112)
handleGenerate(ctxOk) ==
    /\ appState.mode = "text"
    /\ ~generation.loading
    /\ actions < MaxActions
    /\ actions' = actions + 1
    /\ lastSource' = IF appState.prompt # "" /\ ctxOk THEN TextUrl
                     ELSE lastSource
    /\ IF appState.prompt = ""
       THEN UNCHANGED <<appState, generation, pending, issued, mesh>>
       ELSE Render(GenerateOutcome([generation EXCEPT !.loading = TRUE,
                                                      !.error = NULL_STR],
                                   appState, ctxOk),
                   appState)
    /\ UNCHANGED <<images, reads, particlesData, dataReq, canvas, lastExport,
                   recVars>>

(***************************************************************************)
(* Screen recording (App.tsx 142-154, ModelViewer.tsx 135-203).            *)
(***************************************************************************)
\* what `await viewerRef.current.startRecording()` gives: startRecording is
\* an async function with no return statement, on the path that starts the
\* recorder as on the path that catches an error, so the promise resolves
\* to undefined, which `if (started)` takes as false.
StartRecordingResult(granted) == FALSE

\* handleStartRecording up to the await inside startRecording: the click on
\* the start button, which Controls renders while !isRecording (323-329).
\* viewerRef.current is the handle of PixelCloud, mounted only with an image
\* URL (ModelViewer.tsx 398); without it the handler does nothing.
handleStartRecording ==
    /\ ~isRecording
    /\ actions < MaxActions
    /\ actions' = actions + 1
    /\ recPending' = IF generation.imageUrl # NULL_STR THEN recPending + 1
                     ELSE recPending
    /\ UNCHANGED <<appState, generation, images, reads, pending, issued,
                   particlesData, dataReq, mesh, canvas, lastExport, lastSource,
                   isRecording, recorders>>

\* getDisplayMedia settles: granted, startRecording creates and starts the
\* MediaRecorder and stores it in window.mediaRecorder (169-193); refused,
\* it logs the error (194-196).  Then handleStartRecording goes on after
\* its await (App.tsx 145-147).
DisplayMediaSettles(granted) ==
    /\ recPending > 0
    /\ recPending' = recPending - 1
    /\ recorders' = IF granted THEN Append(recorders, "recording")
                    ELSE recorders
    /\ isRecording' = IF StartRecordingResult(granted) THEN TRUE
                      ELSE isRecording
    /\ UNCHANGED <<appState, generation, images, reads, pending, issued,
                   particlesData, dataReq, mesh, canvas, actions, lastExport, lastSource>>

\* The user ends the screen share with the browser's own control: the
\* tracks of the stream end, the MediaRecorder on it stops and its onstop
\* downloads the recording (181-190).
RecorderStops(i) ==
    /\ i \in DOMAIN recorders
    /\ recorders[i] = "recording"
    /\ recorders' = [recorders EXCEPT ![i] = "inactive"]
    /\ UNCHANGED <<appState, generation, images, reads, pending, issued,
                   particlesData, dataReq, mesh, canvas, actions, lastExport, lastSource,
                   isRecording, recPending>>

\* handleStopRecording (App.tsx 151-154) with stopRecording (198-203): the
\* click on the stop button, which Controls renders while isRecording
\* (330-336).
handleStopRecording ==
    /\ isRecording
    /\ recorders' =
         IF recorders # <<>> /\ recorders[Len(recorders)] # "inactive"
         THEN [recorders EXCEPT ![Len(recorders)] = "inactive"]
         ELSE recorders
    /\ isRecording' = FALSE
    /\ UNCHANGED <<appState, generation, images, reads, pending, issued,
                   particlesData, dataReq, mesh, canvas, actions, lastExport, lastSource,
                   recPending>>

(***************************************************************************)
(* The handlers of App around the sampling pipeline: one file, the         *)
(* controls that do not feed the sampler, text generation and recording.   *)
(* handleStopRecording is no step of it: its button is rendered only while *)
(* isRecording, which no step makes true.                                  *)
(***************************************************************************)
AppNext ==
    \/ \E field \in AppFields : \E value \in AppFieldValues[field] :
          handleStateChange(field, value)
    \/ handleUpload("fileA")
    \/ ReaderOnload("fileA")
    \/ \E q \in pending : ImgOnload(q)
    \/ \E ctxOk \in BOOLEAN : handleGenerate(ctxOk)
    \/ handleStartRecording
    \/ \E granted \in BOOLEAN : DisplayMediaSettles(granted)
    \/ \E i \in DOMAIN recorders : RecorderStops(i)

AppSpec == Init /\ [][AppNext]_vars


(***************************************************************************)
(* The sampler and the exporter on their own: one image load in flight,    *)
(* for an image and an appState drawn from bounded sets; img.onload runs   *)
(* the sampling pass and exportPLY exports what it stored.                 *)
(***************************************************************************)
Palette == {PxWhite, PxFaint}

\* every image of at most MaxW x MaxH pixels over the palette
Rasters ==
    UNION {UNION {{[width |-> w, height |-> h, data |-> d] :
                     d \in [1..(w * h) -> Palette]} : h \in 1..MaxH} : w \in 1..MaxW}

\* samplingStep (tenths), also below the slider's minimum of 1
StepValues == {-10, 0, 5, 10, 15, 20, 30}
ThresholdValues == {0, 19, 20, 255}

GeometryInputs ==
    {<<img, [DefaultAppState EXCEPT !.samplingStep = s,
                                    !.transparencyThreshold = t]>> :
        img \in Rasters, s \in StepValues, t \in ThresholdValues}

ColourInputs ==
    {<<img, [DefaultAppState EXCEPT !.samplingStep = 10,
                                    !.transparencyThreshold = 0,
                                    !.colorMode = m,
                                    !.brightness = br,
                                    !.tintColor = tint,
                                    !.particleSize = ps,
                                    !.zExtrusion = z]>> :
        img \in {ImageA, ImageB, ImageDot}, m \in ColorModes,
        br \in {0, 10, 30},
        tint \in {"#ffffff", "#ff0000", "#00ffff"}, ps \in {1, 15},
        z \in {0, 400, 4000}}

\* rasters of transparent pixels only, up to the 4 x 4 one at the first
\* bounds, under thresholds around the lowest alpha
ClearRasters ==
    {[width |-> w, height |-> h, data |-> [i \in 1..(w * h) |-> PxClear]] :
        w \in 1..(MaxW + 2), h \in 1..(MaxH + 2)}

TransparentInputs ==
    {<<img, [DefaultAppState EXCEPT !.samplingStep = s,
                                    !.transparencyThreshold = t]>> :
        img \in ClearRasters, s \in {10, 30}, t \in {0, 1, 20, 255}}

\* an image more than 2 * MAX_WIDTH times as wide as high, and an image of
\* width 1 higher than MAX_WIDTH whose first and last pixels are opaque
ImageWide ==
    [width |-> 4 * MAX_WIDTH, height |-> 1,
     data |-> [i \in 1..(4 * MAX_WIDTH) |-> PxWhite]]
ImageTall ==
    [width |-> 1, height |-> MAX_WIDTH + 1,
     data |-> [i \in 1..(MAX_WIDTH + 1) |->
                 IF i \in {1, MAX_WIDTH + 1} THEN PxWhite ELSE PxClear]]

\* the high image is scanned under steps of 64 and 128 pixels, more than
\* the slider gives (Controls.tsx 157), to keep its scan to a few rows
ShapeInputs ==
    {<<ImageWide, [DefaultAppState EXCEPT !.samplingStep = s]>> :
        s \in {10, 30, 80}}
    \cup {<<ImageTall, [DefaultAppState EXCEPT !.samplingStep = s]>> :
             s \in {640, 1280}}

SamplerInputs ==
    GeometryInputs \cup ColourInputs \cup TransparentInputs \cup ShapeInputs

SamplerInit ==
    \E in \in SamplerInputs :
       /\ appState = in[2]
       /\ generation = [imageUrl |-> "data:A", loading |-> FALSE,
                        error |-> NULL_STR, prompt |-> "fileA"]
       /\ images = [u \in Urls |-> IF u = "data:A" THEN in[1] ELSE ImageB]
       /\ reads = [f \in Files |-> 0]
       /\ pending = {[seq |-> 1, url |-> "data:A", cfg |-> in[2]]}
       /\ issued = 1
       /\ particlesData = NULL
       /\ dataReq = NULL
       /\ mesh = NULL
       /\ canvas = NULL
       /\ actions = 0
       /\ lastExport = NULL
       /\ lastSource = "data:A"
       /\ isRecording = FALSE
       /\ recPending = 0
       /\ recorders = <<>>

SamplerNext ==
    \/ \E q \in pending : ImgOnload(q)
    \/ exportPLY

SamplerSpec == SamplerInit /\ [][SamplerNext]_vars

(***************************************************************************)
(* The sampler under an appState with NaN in particleSize, zExtrusion or   *)
(* brightness (all three are of type number): one image load in flight,    *)
(* and img.onload runs the sampling pass.                                  *)
(***************************************************************************)
NonFiniteInputs ==
    {<<img, [DefaultAppState EXCEPT !.samplingStep = 10,
                                    !.particleSize = ps,
                                    !.zExtrusion = z,
                                    !.brightness = br]>> :
        img \in Rasters,
        ps \in {15, NaN}, z \in {400, NaN}, br \in {10, NaN}}
    \ {<<img, [DefaultAppState EXCEPT !.samplingStep = 10]>> : img \in Rasters}

NonFiniteInit ==
    \E in \in NonFiniteInputs :
       /\ appState = in[2]
       /\ generation = [imageUrl |-> "data:A", loading |-> FALSE,
                        error |-> NULL_STR, prompt |-> "fileA"]
       /\ images = [u \in Urls |-> IF u = "data:A" THEN in[1] ELSE ImageB]
       /\ reads = [f \in Files |-> 0]
       /\ pending = {[seq |-> 1, url |-> "data:A", cfg |-> in[2]]}
       /\ issued = 1
       /\ particlesData = NULL
       /\ dataReq = NULL
       /\ mesh = NULL
       /\ canvas = NULL
       /\ actions = 0
       /\ lastExport = NULL
       /\ lastSource = "data:A"
       /\ isRecording = FALSE
       /\ recPending = 0
       /\ recorders = <<>>

NonFiniteNext == \E q \in pending : ImgOnload(q)

NonFiniteSpec == NonFiniteInit /\ [][NonFiniteNext]_vars


(***************************************************************************)
(* Properties.  The cloud in the store is read back against the image and  *)
(* the appState of the load that wrote it (dataReq).                       *)
(***************************************************************************)
NumPoints(data) == Len(data.pos) \div 3

\* the effective stride the specification gives: max(1, floor(step))
StrideOf(cfg) == IF cfg.samplingStep < 10 THEN 1 ELSE cfg.samplingStep \div 10

\* the pixels of an image, as <<x, y>>
Coords(img) == (0..(img.width - 1)) \X (0..(img.height - 1))

PixelOf(img, c) == img.data[c[2] * img.width + c[1] + 1]

\* point i of the cloud lies where pixel c of img is placed under cfg
PlacedAt(data, i, img, cfg, c) ==
    /\ data.pos[3 * i - 2] = (2 * c[1] - img.width) * cfg.particleSize * 153
    /\ data.pos[3 * i - 1] = (img.height - 2 * c[2]) * cfg.particleSize * 153

\* the source pixels of point i (exactly one, for a well-formed cloud)
Sources(data, i, img, cfg) ==
    {c \in Coords(img) : PlacedAt(data, i, img, cfg, c)}

\* row-major raster order
Before(c, d) == c[2] < d[2] \/ (c[2] = d[2] /\ c[1] < d[1])

Sampled == dataReq # NULL /\ particlesData # NULL

\* C2: the store is null or the (pos, col) of one sampler pass, of equal
\* lengths 3*n; the mesh and an export hold the positions and colours of one
\* such pair, never a part of one or a mix of two.
C2_StoreIsOnePass ==
    /\ particlesData # NULL =>
         /\ dataReq # NULL
         /\ particlesData = SamplePass(images[dataReq.url], dataReq.cfg)
         /\ Len(particlesData.pos) = Len(particlesData.col)
         /\ Len(particlesData.pos) % 3 = 0
    /\ mesh # NULL =>
         /\ particlesData # NULL
         /\ mesh.count = NumPoints(particlesData)
         /\ Len(mesh.inst) = Min(mesh.count, MeshCapacity)
         /\ \A i \in 1..Len(mesh.inst) :
               /\ mesh.inst[i].pos = SubSeq(particlesData.pos, 3 * i - 2, 3 * i)
               /\ mesh.inst[i].col = SubSeq(particlesData.col, 3 * i - 2, 3 * i)
    /\ (lastExport # NULL /\ lastExport.data # NULL) =>
         /\ lastExport.req # NULL
         /\ lastExport.data =
              SamplePass(images[lastExport.req.url], lastExport.req.cfg)
         /\ Len(lastExport.data.pos) = Len(lastExport.data.col)
         /\ Len(lastExport.data.pos) % 3 = 0
         /\ lastExport.file # NULL =>
              Len(lastExport.file.lines) = NumPoints(lastExport.data)

\* C2 witness: the store has been replaced by a later pass after an export
\* read the earlier cloud, and the mesh shows the new one.
C2_Witness ==
    /\ particlesData # NULL
    /\ mesh # NULL
    /\ mesh.count >= 1
    /\ lastExport # NULL
    /\ lastExport.file # NULL
    /\ lastExport.data # particlesData

\* C1: a result is written to the store only if it belongs to the newest
\* request issued: no load that a later effect run has superseded writes
\* the store.
C1_OnlyNewestWrites ==
    [][dataReq' # dataReq => dataReq'.seq = issued']_vars

\* C3: every change of the raster or of a sampling dependency (with a
\* raster present) starts a new pass, and once nothing is in flight (no file read, no image load) the
\* store holds the sample of the latest raster under the latest appState.
C3_SettlesOnLatest ==
    /\ [][( /\ generation.imageUrl' # NULL_STR
            /\ ProcessDeps(generation.imageUrl, appState)'
                 # ProcessDeps(generation.imageUrl, appState) )
          => /\ issued' = issued + 1
             /\ \E q \in pending' \ pending :
                   /\ q.seq = issued'
                   /\ q.url = generation.imageUrl'
                   /\ q.cfg = appState']_vars
    /\ [](( /\ generation.imageUrl # NULL_STR
            /\ pending = {}
            /\ \A f \in Files : reads[f] = 0 )
          => particlesData =
               SamplePass(images[generation.imageUrl], appState))

(***************************************************************************)
(* The sampler's output, read back point by point.                         *)
(***************************************************************************)
\* the image and appState of the pass that wrote the store
PassImage == images[dataReq.url]
PassCfg == dataReq.cfg

\* the pixels the scan visits: those on the stride grid
OnGrid(c, step) == c[1] % step = 0 /\ c[2] % step = 0

\* the points of the store that come from pixel c
PointsFrom(c) ==
    {i \in 1..NumPoints(particlesData) :
        PlacedAt(particlesData, i, PassImage, PassCfg, c)}

\* C4: every point comes from a scanned pixel whose alpha is at least the
\* threshold, and every scanned pixel with such an alpha yields exactly one
\* point; a pixel with a lower alpha yields none.
C4_AlphaFilter ==
    Sampled =>
      LET step == StrideOf(PassCfg)
          thr  == PassCfg.transparencyThreshold
      IN  /\ \A i \in 1..NumPoints(particlesData) :
                \E c \in Coords(PassImage) :
                   /\ PlacedAt(particlesData, i, PassImage, PassCfg, c)
                   /\ OnGrid(c, step)
                   /\ PixelOf(PassImage, c).a >= thr
          /\ \A c \in Coords(PassImage) :
                /\ (OnGrid(c, step) /\ PixelOf(PassImage, c).a >= thr)
                      => Cardinality(PointsFrom(c)) = 1
                /\ PixelOf(PassImage, c).a < thr => PointsFrom(c) = {}

\* C4 witness: a pass that kept a pixel whose alpha equals the threshold and
\* dropped a scanned pixel just below it.
C4_Witness ==
    /\ Sampled
    /\ PassCfg.transparencyThreshold > 0
    /\ \E c \in Coords(PassImage) :
          /\ OnGrid(c, StrideOf(PassCfg))
          /\ PixelOf(PassImage, c).a = PassCfg.transparencyThreshold
          /\ PointsFrom(c) # {}
    /\ \E c \in Coords(PassImage) :
          /\ OnGrid(c, StrideOf(PassCfg))
          /\ PixelOf(PassImage, c).a < PassCfg.transparencyThreshold

\* C5: every point originates from a pixel (x, y) of the raster with
\* x mod step = 0 and y mod step = 0 for step = max(1, floor(samplingStep)),
\* and a samplingStep below 1 gives exactly the cloud of samplingStep 1.
C5_Stride ==
    Sampled =>
      /\ \A i \in 1..NumPoints(particlesData) :
            \E c \in Coords(PassImage) :
               /\ PlacedAt(particlesData, i, PassImage, PassCfg, c)
               /\ c[1] % StrideOf(PassCfg) = 0
               /\ c[2] % StrideOf(PassCfg) = 0
      /\ PassCfg.samplingStep < 10 =>
            particlesData =
              SamplePass(PassImage, [PassCfg EXCEPT !.samplingStep = 10])

\* C5 witness: a pass with stride 2 over a raster that has off-grid pixels
\* passing the alpha filter, which kept a point.
C5_Witness ==
    /\ Sampled
    /\ StrideOf(PassCfg) = 2
    /\ NumPoints(particlesData) >= 1
    /\ \E c \in Coords(PassImage) :
          /\ ~OnGrid(c, 2)
          /\ PixelOf(PassImage, c).a >= PassCfg.transparencyThreshold

\* C6: the points are in row-major order of their source pixels, and the
\* position triple and the colour triple at one index are those of the same
\* source pixel.
C6_ScanOrder ==
    Sampled =>
      /\ \A i \in 1..NumPoints(particlesData) :
            \E c \in Coords(PassImage) :
               LET px == PixelOf(PassImage, c)
               IN  /\ Sources(particlesData, i, PassImage, PassCfg) = {c}
                   /\ particlesData.pos[3 * i] =
                        (px.r + px.g + px.b) * PassCfg.zExtrusion * 4
                   /\ SubSeq(particlesData.col, 3 * i - 2, 3 * i) =
                        applyColorMode(px.r, px.g, px.b, PassCfg.colorMode,
                                       PassCfg.brightness, PassCfg.tintColor)
      /\ \A i, j \in 1..NumPoints(particlesData) :
            i < j =>
              \A c \in Sources(particlesData, i, PassImage, PassCfg) :
              \A d \in Sources(particlesData, j, PassImage, PassCfg) :
                 Before(c, d)

\* C6 witness: a cloud with points from two rows and two columns whose
\* pixels differ in colour.
C6_Witness ==
    /\ Sampled
    /\ NumPoints(particlesData) >= 3
    /\ \E i, j \in 1..NumPoints(particlesData) :
          /\ particlesData.pos[3 * i - 2] # particlesData.pos[3 * j - 2]
          /\ SubSeq(particlesData.col, 3 * i - 2, 3 * i)
               # SubSeq(particlesData.col, 3 * j - 2, 3 * j)
    /\ \E i, j \in 1..NumPoints(particlesData) :
          particlesData.pos[3 * i - 1] # particlesData.pos[3 * j - 1]

(***************************************************************************)
(* The exporter, read back against the cloud the call was given.           *)
(***************************************************************************)
\* exportPLY has been called with a cloud in the store
Exported == lastExport # NULL /\ lastExport.data # NULL

\* the printed number f is the position v to three decimals
Prints(f, v) ==
    /\ 2 * Abs(f.milli * 153 - Abs(v)) <= 153
    /\ f.neg <=> v < 0

\* vertex line k of the file is point k of the cloud
LineIsPoint(file, data, k) ==
    /\ Prints(file.lines[k].x, data.pos[3 * k - 2])
    /\ Prints(file.lines[k].y, data.pos[3 * k - 1])
    /\ Prints(file.lines[k].z, data.pos[3 * k])

IsByteOf(b, c) ==
    /\ b \in 0..255
    /\ IF c[1] * 255 >= 255 * c[2] THEN b = 255
       ELSE IF c[1] < 0 THEN b = 0
       ELSE b * c[2] <= c[1] * 255 /\ c[1] * 255 < (b + 1) * c[2]

\* C10: every exported colour value is min(255, max(0, floor(c * 255))) of
\* the stored channel c, values above 1 included, so an integer in 0..255.
C10_ColourBytes ==
    (Exported /\ lastExport.file # NULL) =>
      \A k \in 1..Len(lastExport.file.lines) :
         /\ IsByteOf(lastExport.file.lines[k].r, lastExport.data.col[3 * k - 2])
         /\ IsByteOf(lastExport.file.lines[k].g, lastExport.data.col[3 * k - 1])
         /\ IsByteOf(lastExport.file.lines[k].b, lastExport.data.col[3 * k])

\* C10 witness: an exported point with a channel above 1 and a channel that
\* is a proper fraction whose 255-fold is no whole number.
C10_Witness ==
    /\ Exported
    /\ lastExport.file # NULL
    /\ \E i \in 1..Len(lastExport.data.col) :
          lastExport.data.col[i][1] > lastExport.data.col[i][2]
    /\ \E i \in 1..Len(lastExport.data.col) :
          /\ lastExport.data.col[i][1] < lastExport.data.col[i][2]
          /\ (lastExport.data.col[i][1] * 255) % lastExport.data.col[i][2] # 0

\* the number a reader of the file parses from the printed f, in thousandths
ParseFixed(f) == IF f.neg THEN 0 - f.milli ELSE f.milli

\* C11: reading an exported payload back gives, for every point of the
\* cloud the sampler stored, coordinates within the rounding of three
\* decimals (half a thousandth) of the stored ones, and colour bytes equal
\* to the stored colour scaled to 0..255 (floor of c * 255, held in 0..255).
C11_RoundTrip ==
    (Exported /\ lastExport.file # NULL) =>
      /\ lastExport.file.vertex = NumPoints(lastExport.data)
      /\ \A k \in 1..NumPoints(lastExport.data) :
            LET line == lastExport.file.lines[k]
            IN  /\ \A a \in 0..2 :
                      LET f == IF a = 0 THEN line.x
                               ELSE IF a = 1 THEN line.y ELSE line.z
                          v == lastExport.data.pos[3 * k - 2 + a]
                      IN  2 * Abs(ParseFixed(f) * 153 - v) <= 153
                /\ <<line.r, line.g, line.b>> \in (0..255) \X (0..255) \X (0..255)
                /\ \A a \in 0..2 :
                      LET b == IF a = 0 THEN line.r
                               ELSE IF a = 1 THEN line.g ELSE line.b
                      IN  IsByteOf(b, lastExport.data.col[3 * k - 2 + a])

\* C11 witness: an exported cloud with a negative coordinate and a
\* coordinate that three decimals round up.
C11_Witness ==
    /\ Exported
    /\ lastExport.file # NULL
    /\ \E i \in 1..Len(lastExport.data.pos) : lastExport.data.pos[i] < 0
    /\ \E i \in 1..Len(lastExport.data.pos) :
          2 * (lastExport.data.pos[i] % 153) > 153

PassDone == pending = {} /\ issued = 1
Raster == images[generation.imageUrl]
EmptyCloud == [pos |-> <<>>, col |-> <<>>]

AllTransparent(img) == \A c \in Coords(img) : PixelOf(img, c).a = 0
AllBelow(img, thr) == \A c \in Coords(img) : PixelOf(img, c).a < thr

\* C13 as stated: a raster whose pixels are all transparent (alpha 0), or
\* all below the threshold, yields a stored cloud of zero points, for every
\* threshold in 0..255.
C13_TransparentIsEmpty ==
    ( /\ PassDone
      /\ Raster.width <= MAX_WIDTH
      /\ appState.transparencyThreshold \in 0..255
      /\ \/ AllTransparent(Raster)
         \/ AllBelow(Raster, appState.transparencyThreshold) )
    => particlesData = EmptyCloud

\* C13 amended: a raster whose pixels are all below the threshold yields a
\* stored cloud of zero points and no error; so does an all-transparent
\* raster for every threshold in 1..255, while under threshold 0 no pixel
\* is below the threshold and each scanned pixel of it yields a point.
C13_BelowThresholdIsEmpty ==
    ( /\ PassDone
      /\ Raster.width <= MAX_WIDTH
      /\ appState.transparencyThreshold \in 0..255 )
    => /\ AllBelow(Raster, appState.transparencyThreshold)
            => particlesData = EmptyCloud
       /\ (AllTransparent(Raster) /\ appState.transparencyThreshold >= 1)
            => particlesData = EmptyCloud
       /\ (AllTransparent(Raster) /\ appState.transparencyThreshold = 0)
            => /\ particlesData # NULL
               /\ NumPoints(particlesData) =
                    Cardinality({c \in Coords(Raster) :
                                   OnGrid(c, StrideOf(appState))})

\* C13 witness: the pass over the fully transparent 4 x 4 raster under
\* threshold 20 has stored its cloud.
C13_Witness ==
    /\ PassDone
    /\ Raster.width = 4
    /\ Raster.height = 4
    /\ AllTransparent(Raster)
    /\ appState.transparencyThreshold = 20
    /\ particlesData = EmptyCloud

\* C14: a raster with W = 0 or H = 0 is not an error: the pass over it
\* completes and stores the empty cloud.
C14_ZeroSizeIsEmpty ==
    (PassDone /\ canvas # NULL /\ (canvas.width = 0 \/ canvas.height = 0))
    => particlesData = EmptyCloud

\* C18: an image larger than 512 pixels on a side is scaled down before the
\* sampling loop runs: the raster the loop scans, the canvas, has W <= 512
\* and H <= 512.
C18_RasterWithin512 ==
    canvas # NULL => (canvas.width <= 512 /\ canvas.height <= 512)

\* a config field other than the step is not finite
NonFinite(cfg) ==
    cfg.particleSize = NaN \/ cfg.zExtrusion = NaN \/ cfg.brightness = NaN

\* C15: when particleSize, zExtrusion or brightness is not finite the pass
\* stores no cloud, and no stored point ever has a coordinate or a colour
\* channel that is not finite.
C15_NonFiniteRejected ==
    /\ (PassDone /\ NonFinite(appState)) => particlesData = NULL
    /\ particlesData # NULL =>
         /\ \A i \in 1..Len(particlesData.pos) : particlesData.pos[i] # NaN
         /\ \A i \in 1..Len(particlesData.col) : particlesData.col[i][2] # 0

\* the colour modes whose formulas stay within 0..1 for channels in 0..1
UnitModes ==
    {"ORIGINAL", "COOL_BLACK", "VAPORWAVE", "ARCTIC", "MONO", "SEPIA",
     "BLUEPRINT"}

\* C16 as stated: every colour channel of every stored point lies in
\* [0, 1], for every pixel, colour mode, brightness in 0..3 and tint.
C16_ColoursInUnitRange ==
    Sampled =>
      \A i \in 1..Len(particlesData.col) :
         /\ particlesData.col[i][1] >= 0
         /\ particlesData.col[i][1] <= particlesData.col[i][2]

\* C16 amended: every colour channel of every stored point is at least 0
\* and at most 1.5 * brightness; it lies in [0, 1] whenever brightness is
\* at most 1 and the colour mode is one of ORIGINAL, COOL_BLACK, VAPORWAVE,
\* ARCTIC, MONO, SEPIA and BLUEPRINT.
C16_ColourRange ==
    (Sampled /\ PassCfg.brightness \in 0..30) =>
      \A i \in 1..Len(particlesData.col) :
         LET c == particlesData.col[i]
         IN  /\ c[2] > 0
             /\ c[1] >= 0
             /\ 20 * c[1] <= 3 * PassCfg.brightness * c[2]
             /\ (PassCfg.brightness <= 10 /\ PassCfg.colorMode \in UnitModes)
                   => c[1] <= c[2]

\* C16 witness: a cloud stored under VAPORWAVE at brightness 1 in which a
\* channel was capped at exactly 1 and another lies strictly inside.
C16_Witness ==
    /\ Sampled
    /\ PassCfg.colorMode = "VAPORWAVE"
    /\ PassCfg.brightness = 10
    /\ PassCfg.tintColor = "#ffffff"
    /\ \E i \in 1..Len(particlesData.col) : particlesData.col[i] = <<1, 1>>
    /\ \E i \in 1..Len(particlesData.col) :
          /\ 0 < particlesData.col[i][1]
          /\ particlesData.col[i][1] < particlesData.col[i][2]

\* C17: after the mesh update for a stored cloud of N points the mesh
\* renders exactly N instances, instance i carrying the position and the
\* colour of point i, for every cloud the sampler can store, those with N
\* above the allocated capacity included; no instance of an earlier cloud
\* stays rendered.
C17_MeshShowsCloud ==
    (mesh # NULL /\ particlesData # NULL) =>
      /\ mesh.count = NumPoints(particlesData)
      /\ Len(mesh.inst) <= NumPoints(particlesData)
      /\ \A i \in 1..NumPoints(particlesData) :
            /\ i \in DOMAIN mesh.inst
            /\ mesh.inst[i].pos = SubSeq(particlesData.pos, 3 * i - 2, 3 * i)
            /\ mesh.inst[i].col = SubSeq(particlesData.col, 3 * i - 2, 3 * i)

\* the green channel of a tint, 0 or 1
TintGreen(hex) == IF hex = "#ff0000" \/ hex = "#000000" THEN 0 ELSE 1

\* C19: under MATRIX every point has red = 0 and blue = 0, and green equal
\* to the luminance 0.299 r + 0.587 g + 0.114 b of its source pixel
\* (bytes over 255) times 1.5, times the tint's green, times brightness.
C19_Matrix ==
    (Sampled /\ PassCfg.colorMode = "MATRIX") =>
      \A i \in 1..NumPoints(particlesData) :
         \E c \in Sources(particlesData, i, PassImage, PassCfg) :
            LET px  == PixelOf(PassImage, c)
                lum == 299 * px.r + 587 * px.g + 114 * px.b
            IN  /\ particlesData.col[3 * i - 2][1] = 0
                /\ particlesData.col[3 * i][1] = 0
                /\ particlesData.col[3 * i - 1] =
                     Rat(lum * 15 * PassCfg.brightness
                             * TintGreen(PassCfg.tintColor),
                         255000 * 100)

\* C19 witness: a MATRIX cloud at brightness 3 under a tint that keeps
\* green, with two points of different green above 0, one of them above 1.
C19_Witness ==
    /\ Sampled
    /\ PassCfg.colorMode = "MATRIX"
    /\ PassCfg.brightness = 30
    /\ PassCfg.tintColor = "#00ffff"
    /\ \E i, j \in 1..NumPoints(particlesData) :
          /\ particlesData.col[3 * i - 1][1] > particlesData.col[3 * i - 1][2]
          /\ particlesData.col[3 * j - 1][1] > 0
          /\ particlesData.col[3 * j - 1] # particlesData.col[3 * i - 1]

\* the pass over the 1 x 1 opaque white raster with step 1, threshold 0,
\* ORIGINAL, brightness 1 and the white tint has run
SinglePixelPass ==
    /\ PassDone
    /\ Raster = ImageDot
    /\ appState.samplingStep = 10
    /\ appState.transparencyThreshold = 0
    /\ appState.colorMode = "ORIGINAL"
    /\ appState.brightness = 10
    /\ appState.tintColor = "#ffffff"

\* C20 as stated: that pass yields exactly one point, at (0, 0, 0), with
\* colour (1, 1, 1).
C20_SinglePixelAtOrigin ==
    SinglePixelPass =>
      /\ particlesData # NULL
      /\ particlesData.pos = <<0, 0, 0>>
      /\ particlesData.col = <<Rat(1, 1), Rat(1, 1), Rat(1, 1)>>

\* C20 amended: that pass yields exactly one point, with colour (1, 1, 1),
\* at (-0.01 * particleSize, 0.01 * particleSize, 0.02 * zExtrusion): half
\* a pixel left of and above the centre of the raster, at the depth of
\* full brightness.
C20_SinglePixel ==
    SinglePixelPass =>
      /\ particlesData # NULL
      /\ NumPoints(particlesData) = 1
      /\ particlesData.pos =
           << 0 - 153 * appState.particleSize,
              153 * appState.particleSize,
              3060 * appState.zExtrusion >>
      /\ particlesData.col = <<Rat(1, 1), Rat(1, 1), Rat(1, 1)>>

\* C20 witness: the pass has run under a particleSize and a zExtrusion
\* other than the defaults.
C20_Witness ==
    /\ SinglePixelPass
    /\ particlesData # NULL
    /\ appState.particleSize = 1
    /\ appState.zExtrusion = 4000

\* a MediaRecorder started by the app is recording
RecorderActive == \E i \in DOMAIN recorders : recorders[i] = "recording"

\* C21: once the user has started a recording and the MediaRecorder has
\* started, isRecording is true; with no start call waiting on the screen
\* picker, isRecording is true exactly while a recorder started by the app
\* is active.
C21_IsRecordingTracksRecorder ==
    recPending = 0 => (isRecording <=> RecorderActive)

\* the fields of appState the sampler does not read
IrrelevantFields ==
    {"particleShape", "autoRotate", "viewportMode", "gridBrightness",
     "focusDistance", "aperture", "mode", "prompt"}

\* C22: a step that changes only particleShape, autoRotate, viewportMode,
\* gridBrightness, focusDistance, aperture, mode or prompt starts no
\* sampling pass and leaves the stored cloud (pos and col) as it was.
C22_IrrelevantChangeKeepsStore ==
    [][(\E f \in IrrelevantFields :
          /\ appState'[f] # appState[f]
          /\ appState' = [appState EXCEPT ![f] = appState'[f]]
          /\ generation' = generation)
       => /\ issued' = issued
          /\ pending' = pending
          /\ particlesData' = particlesData
          /\ dataReq' = dataReq]_vars

\* C22 witness: with a cloud in the store and no load in flight, the
\* particleShape and another field the sampler does not read differ from
\* what they were when the cloud's pass, the newest issued, was started;
\* the mesh has been updated to the new shape.
C22_Witness ==
    /\ particlesData # NULL
    /\ NumPoints(particlesData) >= 1
    /\ pending = {}
    /\ dataReq.seq = issued
    /\ appState.particleShape = "diamond"
    /\ dataReq.cfg.particleShape = "square"
    /\ mesh # NULL
    /\ mesh.inst[1].rotated
    /\ \E f \in IrrelevantFields \ {"particleShape"} :
          appState[f] # dataReq.cfg[f]

\* C23: no handleGenerate call leaves generation.loading true; from every
\* reachable state each of its paths (text image, caught exception, other
\* mode) ends with loading false; and a call with an empty prompt (a click in text mode
\* that changes neither appState nor a file read) leaves the generation
\* state as it was.
C23_LoadingNeverStuck ==
    /\ [](generation.loading = FALSE)
    /\ [](\A mode \in AppFieldValues.mode : \A ctxOk \in BOOLEAN :
            GenerateOutcome([generation EXCEPT !.loading = TRUE,
                                               !.error = NULL_STR],
                            [appState EXCEPT !.mode = mode],
                            ctxOk).loading = FALSE)
    /\ [][( /\ appState.mode = "text"
            /\ appState.prompt = ""
            /\ actions' = actions + 1
            /\ appState' = appState
            /\ reads' = reads )
          => generation' = generation]_vars

\* C23 witness: a call has caught 'Canvas unsupported': the error is set
\* and loading is false again.
C23_Witness ==
    /\ generation.error = "Canvas unsupported"
    /\ generation.loading = FALSE
    /\ appState.prompt = "hi"

\* the smallest integer not below a / s, for s > 0
CeilDiv(a, s) == (a + s - 1) \div s

\* the pixels the loop of a pass visits: the points it pushes when every
\* pixel of the raster is opaque and the threshold is 0
Visits(img, cfg) ==
    NumPoints(SamplePass([img EXCEPT !.data = [i \in DOMAIN img.data |-> PxWhite]],
                         [cfg EXCEPT !.transparencyThreshold = 0]))

\* the visits of the pass stay within ceil(W / step) * ceil(H / step) for
\* the effective step, which is at least 1
VisitsBounded ==
    PassDone =>
        /\ EffStep(appState.samplingStep) >= 1
        /\ Visits(Raster, appState)
             <= CeilDiv(canvas.width, EffStep(appState.samplingStep))
                * CeilDiv(canvas.height, EffStep(appState.samplingStep))

\* C24: for every raster size W, H >= 0 and every samplingStep (0,
\* negative and fractional ones included) the pass ends after at most
\* ceil(W / step) * ceil(H / step) visits, step >= 1, and has then written
\* the store: the store holds the write of that pass.
C24_PassEndsWithOneWrite ==
    PassDone =>
        /\ VisitsBounded
        /\ dataReq # NULL
        /\ particlesData # NULL

\* every FileReader read has completed
ReadsDone == \A f \in Files : reads[f] = 0

\* C25: once all pending reads have completed, generation.imageUrl is the
\* image of the upload or generation that was started last, whatever the
\* order in which the reads finished.
C25_LastStartedWins ==
    (ReadsDone /\ lastSource # NULL_STR) => generation.imageUrl = lastSource

=============================================================================
